---------------------------- MODULE Spec2Model ----------------------------
(***************************************************************************)
(* RtspHeaderAuthorizationField (modules/rtsp/header_fields/               *)
(* rtsp_header_authorization.h): the RTSP Authorization header field that  *)
(* derives a Basic or a Digest credential and renders it as the field's    *)
(* content.                                                                *)
(*                                                                         *)
(* An ov::String is a sequence of symbols.  A symbol is either one         *)
(* character, [ch |-> "a"], or one hex rendering of a message digest,      *)
(* [hex |-> digest, upper |-> case].  The digest is a term over the bytes  *)
(* it was computed from, so two digests are equal exactly when their       *)
(* inputs are equal: MD5 is taken to be free of collisions.  Its 32 hex    *)
(* digits are one symbol of the string, whose letter case is the only      *)
(* thing a case conversion changes.                                        *)
(*                                                                         *)
(* One behaviour is the life of one field object: it is constructed (by    *)
(* the constructor or by one of the two factories) and then receives any   *)
(* sequence of calls, one at a time.                                       *)
(***************************************************************************)
EXTENDS Integers, Sequences, FiniteSets, TLC

\* Longest method string a caller passes.
MaxLen == 1

(***************************************************************************)
(* ov::String and the services the field consumes                          *)
(***************************************************************************)

\* A string literal, written as the tuple of its characters.
Lit(t) == [i \in 1..Len(t) |-> [ch |-> t[i]]]

EmptyString == <<>>

\* Every string of exactly n characters over an alphabet.
RECURSIVE StringsOfLen(_, _)
StringsOfLen(alphabet, n) ==
    IF n = 0 THEN {EmptyString}
    ELSE {s \o Lit(<<c>>) : s \in StringsOfLen(alphabet, n - 1), c \in alphabet}

StringsUpTo(alphabet, n) == UNION {StringsOfLen(alphabet, k) : k \in 0..n}

\* The characters of the strings the callers pass, with their ASCII codes.
CharCode == [c \in {"a", "b", "r", "s", "n", "m", "A", ":", "/"} |->
                CASE c = "a" -> 97  [] c = "b" -> 98  [] c = "r" -> 114
                  [] c = "s" -> 115 [] c = "n" -> 110 [] c = "m" -> 109
                  [] c = "A" -> 65  [] c = ":" -> 58  [] c = "/" -> 47]

\* ov::String::ToData(false): the bytes of the string, without the
\* terminating NUL.  A hex symbol stays a symbol: only digests read it.
ToData(s) == [i \in 1..Len(s) |->
                 IF "ch" \in DOMAIN s[i] THEN [byte |-> CharCode[s[i].ch]] ELSE s[i]]

Base64Alphabet ==
    << "A", "B", "C", "D", "E", "F", "G", "H", "I", "J", "K", "L", "M",
       "N", "O", "P", "Q", "R", "S", "T", "U", "V", "W", "X", "Y", "Z",
       "a", "b", "c", "d", "e", "f", "g", "h", "i", "j", "k", "l", "m",
       "n", "o", "p", "q", "r", "s", "t", "u", "v", "w", "x", "y", "z",
       "0", "1", "2", "3", "4", "5", "6", "7", "8", "9", "+", "/" >>

Sextet(n, k) == Base64Alphabet[((n \div (64 ^ (3 - k))) % 64) + 1]

\* ov::Base64::Encode: three bytes become four characters, a last group of
\* one or two bytes is padded with '='.
RECURSIVE Base64Encode(_)
Base64Encode(data) ==
    IF Len(data) = 0 THEN EmptyString
    ELSE IF Len(data) = 1 THEN
        LET n == data[1].byte * 65536
        IN  Lit(<<Sextet(n, 0), Sextet(n, 1), "=", "=">>)
    ELSE IF Len(data) = 2 THEN
        LET n == data[1].byte * 65536 + data[2].byte * 256
        IN  Lit(<<Sextet(n, 0), Sextet(n, 1), Sextet(n, 2), "=">>)
    ELSE
        LET n == data[1].byte * 65536 + data[2].byte * 256 + data[3].byte
        IN  Lit(<<Sextet(n, 0), Sextet(n, 1), Sextet(n, 2), Sextet(n, 3)>>)
              \o Base64Encode(SubSeq(data, 4, Len(data)))

\* ov::MessageDigest::ComputeDigest: the digest of a byte sequence.
ComputeDigest(algorithm, data) == [algorithm |-> algorithm, data |-> data]

\* ov::Data::ToHexString: the digest's bytes as hexadecimal digits.
ToHexString(digest) == <<[hex |-> digest, upper |-> TRUE]>>

\* ov::String::LowerCaseString: every letter in lower case.
LowerCaseString(s) ==
    [i \in 1..Len(s) |->
        IF "ch" \in DOMAIN s[i]
        THEN [ch |-> CASE s[i].ch = "A" -> "a" [] OTHER -> s[i].ch]
        ELSE [s[i] EXCEPT !.upper = FALSE]]

\* RtspHeaderWWWAuthenticateField::GetSchemeString
BasicName   == Lit(<<"B", "a", "s", "i", "c">>)
DigestName  == Lit(<<"D", "i", "g", "e", "s", "t">>)
UnknownName == Lit(<<"U", "n", "k", "n", "o", "w", "n">>)

GetSchemeString(scheme) ==
    CASE scheme = "Basic"  -> BasicName
      [] scheme = "Digest" -> DigestName
      [] OTHER             -> UnknownName

\* RtspHeaderField::SetContent: stores the field's type and rendered value.
SetContent(f, type, value) ==
    [f EXCEPT !.type = type, !.value = value, !.content_set = TRUE]

(***************************************************************************)
(* RtspHeaderAuthorizationField                                            *)
(***************************************************************************)

\* RtspHeaderAuthorizationField(): the base is constructed with the
\* Authorization type and the scheme is Unknown; every string is empty.
RtspHeaderAuthorizationField ==
    [scheme   |-> "Unknown",
     username |-> EmptyString, password |-> EmptyString,
     method   |-> EmptyString, realm    |-> EmptyString,
     nonce    |-> EmptyString, uri      |-> EmptyString,
     response |-> EmptyString,
     type |-> "Authorization", value |-> EmptyString, content_set |-> FALSE]

Colon == Lit(<<":">>)
Space == Lit(<<" ">>)

\* The literal text of the Digest format string, between its %s.
UsernameIs == Lit(<<" ", "u", "s", "e", "r", "n", "a", "m", "e", "=", "\"">>)
RealmIs    == Lit(<<"\"", ",", " ", "r", "e", "a", "l", "m", "=", "\"">>)
NonceIs    == Lit(<<"\"", ",", " ", "n", "o", "n", "c", "e", "=", "\"">>)
UriIs      == Lit(<<"\"", ",", " ", "u", "r", "i", "=", "\"">>)
ResponseIs == Lit(<<"\"", ",", " ", "r", "e", "s", "p", "o", "n", "s", "e", "=", "\"">>)
Quote      == Lit(<<"\"">>)

\* Variant: the rendered value is not refreshed.
SetBasicAuth_NoContent(f, username, password) ==
    LET f1 == [f EXCEPT !.scheme = "Basic",
                        !.username = username,
                        !.password = password]
    IN  [f1 EXCEPT !.response =
            Base64Encode(ToData(f1.username \o Colon \o f1.password))]

\* Variant: the members of an earlier Digest derivation are cleared.
SetBasicAuth_ClearsDigest(f, username, password) ==
    LET f1 == [f EXCEPT !.scheme = "Basic",
                        !.username = username,
                        !.password = password,
                        !.method = EmptyString, !.realm = EmptyString,
                        !.uri = EmptyString, !.nonce = EmptyString]
        f2 == [f1 EXCEPT !.response =
                  Base64Encode(ToData(f1.username \o Colon \o f1.password))]
        value == GetSchemeString(f2.scheme) \o Space \o f2.response
    IN  SetContent(f2, "Authorization", value)

SetBasicAuth(f, username, password) ==
    LET f1 == [f EXCEPT !.scheme = "Basic",
                        !.username = username,
                        !.password = password]
        f2 == [f1 EXCEPT !.response =
                  Base64Encode(ToData(f1.username \o Colon \o f1.password))]
        value == GetSchemeString(f2.scheme) \o Space \o f2.response
    IN  SetContent(f2, "Authorization", value)

SetDigestAuth(f, username, password, method, realm, uri, nonce) ==
    LET f1 == [f EXCEPT !.scheme = "Digest",
                        !.username = username,
                        !.password = password,
                        !.method = method,
                        !.realm = realm,
                        !.uri = uri,
                        !.nonce = nonce]
        ha1 == f1.username \o Colon \o f1.realm \o Colon \o f1.password
        ha1_md5 == ComputeDigest("Md5", ToData(ha1))
        ha2 == f1.method \o Colon \o f1.uri
        ha2_md5 == ComputeDigest("Md5", ToData(ha2))
        response == LowerCaseString(ToHexString(ha1_md5)) \o Colon \o f1.nonce
                      \o Colon \o LowerCaseString(ToHexString(ha2_md5))
        f2 == [f1 EXCEPT !.response =
                  LowerCaseString(ToHexString(ComputeDigest("Md5", ToData(response))))]
        value == GetSchemeString(f2.scheme)
                   \o UsernameIs \o f2.username
                   \o RealmIs \o f2.realm
                   \o NonceIs \o f2.nonce
                   \o UriIs \o f2.uri
                   \o ResponseIs \o f2.response
                   \o Quote
    IN  SetContent(f2, "Authorization", value)

\* Variant: method and uri are stored, nothing is derived again.
UpdateDigestAuth_Stale(f, method, uri) ==
    [f EXCEPT !.scheme = "Digest", !.method = method, !.uri = uri]

\* Variant: realm and nonce change places in the call.
UpdateDigestAuth_NonceAsRealm(f, method, uri) ==
    SetDigestAuth(f, f.username, f.password, method, f.nonce, uri, f.realm)

\* Variant: the stored method is passed on instead of the new one.
UpdateDigestAuth_OldMethod(f, method, uri) ==
    SetDigestAuth(f, f.username, f.password, f.method, f.realm, uri, f.nonce)

UpdateDigestAuth(f, method, uri) ==
    SetDigestAuth(f, f.username, f.password, method, f.realm, uri, f.nonce)

\* The factories: a new field, then the setter.
CreateRtspBasicAuthorizationField(username, password) ==
    SetBasicAuth(RtspHeaderAuthorizationField, username, password)

\* Variant: the arguments are handed to the setter in the factory's order.
CreateRtspDigestAuthorizationField_SameOrder(username, password, method, uri, realm, nonce) ==
    SetDigestAuth(RtspHeaderAuthorizationField,
                  username, password, method, uri, realm, nonce)

CreateRtspDigestAuthorizationField(username, password, method, uri, realm, nonce) ==
    SetDigestAuth(RtspHeaderAuthorizationField,
                  username, password, method, realm, uri, nonce)

\* Variant: the field is cleared before the (missing) parsing.
Parse_Clears(f, message) == [field |-> RtspHeaderAuthorizationField, ret |-> FALSE]

\* Variant: the stub reports success.
Parse_Succeeds(f, message) == [field |-> f, ret |-> TRUE]

\* Parse: not implemented, returns false and touches nothing.
Parse(f, message) == [field |-> f, ret |-> FALSE]

GetScheme(f)   == f.scheme
GetUsername(f) == f.username
GetPassword(f) == f.password
GetMethod(f)   == f.method
GetRealm(f)    == f.realm
GetUri(f)      == f.uri
GetNonce(f)    == f.nonce
GetResponse(f) == f.response

(***************************************************************************)
(* The callers' inputs                                                     *)
(***************************************************************************)
Usernames == {EmptyString, Lit(<<"a">>)}
Passwords == {EmptyString, Lit(<<"b">>)}
Realms    == {Lit(<<"r">>), Lit(<<"s">>)}
Nonces    == {Lit(<<"n">>)}
Methods   == StringsUpTo({"A", ":"}, MaxLen)
Uris      == {EmptyString, Lit(<<":">>)}
Messages  == {EmptyString, Lit(<<"B", "a", "s", "i", "c", " ", "O", "g", "=", "=">>)}

(***************************************************************************)
(* The state machine                                                       *)
(***************************************************************************)
VARIABLES
    created,   \* the field object exists
    field,     \* the object's members
    op         \* the last call: its name, its arguments in positional order,
               \* what it returned, and what it found (see Before)

vars == <<created, field, op>>

Void == [kind |-> "void"]
Value(v) == [kind |-> "value", value |-> v]

\* What a call finds: the scheme of the object it is made on, and, for an
\* UpdateDigestAuth that directly follows an UpdateDigestAuth, whether it
\* passes the same (method, uri) pair or another one.
Before(name, args) ==
    [scheme |-> IF created THEN field.scheme ELSE "none",
     follows |-> IF name = "UpdateDigestAuth" /\ op.name = "UpdateDigestAuth"
                 THEN (IF args = op.args THEN "same pair" ELSE "other pair")
                 ELSE "none"]

Call(name, args, ret) ==
    [name |-> name, args |-> args, ret |-> ret, from |-> Before(name, args)]

Init ==
    /\ created = FALSE
    /\ field = RtspHeaderAuthorizationField
    /\ op = [name |-> "none", args |-> <<>>, ret |-> Void,
             from |-> [scheme |-> "none", follows |-> "none"]]

New ==
    /\ ~created
    /\ created' = TRUE
    /\ field' = RtspHeaderAuthorizationField
    /\ op' = Call("RtspHeaderAuthorizationField", <<>>, Void)

CreateBasic ==
    /\ ~created
    /\ \E username \in Usernames, password \in Passwords :
        /\ field' = CreateRtspBasicAuthorizationField(username, password)
        /\ op' = Call("CreateRtspBasicAuthorizationField", <<username, password>>, Void)
    /\ created' = TRUE

\* The caller passes six strings; which of the last three is the realm, the
\* uri and the nonce is the factory's business.
CreateDigest ==
    /\ ~created
    /\ \E a1 \in Usernames, a2 \in Passwords, a3 \in Methods,
          a4 \in Uris \cup Realms, a5 \in Uris \cup Realms, a6 \in Nonces :
        /\ field' = CreateRtspDigestAuthorizationField(a1, a2, a3, a4, a5, a6)
        /\ op' = Call("CreateRtspDigestAuthorizationField",
                      <<a1, a2, a3, a4, a5, a6>>, Void)
    /\ created' = TRUE

CallSetBasicAuth ==
    /\ created
    /\ \E username \in Usernames, password \in Passwords :
        /\ field' = SetBasicAuth(field, username, password)
        /\ op' = Call("SetBasicAuth", <<username, password>>, Void)
    /\ UNCHANGED created

CallSetDigestAuth ==
    /\ created
    /\ \E username \in Usernames, password \in Passwords, method \in Methods,
          realm \in Realms, uri \in Uris, nonce \in Nonces :
        /\ field' = SetDigestAuth(field, username, password, method, realm, uri, nonce)
        /\ op' = Call("SetDigestAuth",
                      <<username, password, method, realm, uri, nonce>>, Void)
    /\ UNCHANGED created

CallUpdateDigestAuth ==
    /\ created
    /\ \E method \in Methods, uri \in Uris :
        /\ field' = UpdateDigestAuth(field, method, uri)
        /\ op' = Call("UpdateDigestAuth", <<method, uri>>, Void)
    /\ UNCHANGED created

CallParse ==
    /\ created
    /\ \E message \in Messages :
        LET r == Parse(field, message)
        IN  /\ field' = r.field
            /\ op' = Call("Parse", <<message>>, Value(r.ret))
    /\ UNCHANGED created

CallGetScheme ==
    /\ created
    /\ op' = Call("GetScheme", <<>>, Value(GetScheme(field)))
    /\ UNCHANGED <<created, field>>

CallGetResponse ==
    /\ created
    /\ op' = Call("GetResponse", <<>>, Value(GetResponse(field)))
    /\ UNCHANGED <<created, field>>

Next ==
    \/ New
    \/ CreateBasic
    \/ CreateDigest
    \/ CallSetBasicAuth
    \/ CallSetDigestAuth
    \/ CallUpdateDigestAuth
    \/ CallParse
    \/ CallGetScheme
    \/ CallGetResponse

Spec == Init /\ [][Next]_vars

TypeOK ==
    /\ created \in BOOLEAN
    /\ field.scheme \in {"Unknown", "Basic", "Digest"}
    /\ field.type = "Authorization"
    /\ op.ret.kind \in {"void", "value"}

(***************************************************************************)
(* Properties                                                              *)
(***************************************************************************)

\* lowerhex(H(s)) of the specification.
LowerHexDigest(s) == LowerCaseString(ToHexString(ComputeDigest("Md5", ToData(s))))

\* The three-step derivation of the specification.
DigestResponseOf(username, realm, password, nonce, method, uri) ==
    LowerHexDigest(LowerHexDigest(username \o Colon \o realm \o Colon \o password)
                     \o Colon \o nonce \o Colon
                     \o LowerHexDigest(method \o Colon \o uri))

BasicResponseOf(username, password) ==
    Base64Encode(ToData(username \o Colon \o password))

\* The response the getters' current values call for.
ResponseOfFields(f) ==
    CASE GetScheme(f) = "Digest" ->
             DigestResponseOf(GetUsername(f), GetRealm(f), GetPassword(f),
                              GetNonce(f), GetMethod(f), GetUri(f))
      [] GetScheme(f) = "Basic" ->
             BasicResponseOf(GetUsername(f), GetPassword(f))
      [] OTHER -> EmptyString

\* The wire value the getters' current values call for.
ValueOfFields(f) ==
    CASE GetScheme(f) = "Digest" ->
             DigestName \o UsernameIs \o GetUsername(f) \o RealmIs \o GetRealm(f)
               \o NonceIs \o GetNonce(f) \o UriIs \o GetUri(f)
               \o ResponseIs \o GetResponse(f) \o Quote
      [] GetScheme(f) = "Basic" -> BasicName \o Space \o GetResponse(f)
      [] OTHER -> EmptyString

HasColon(s) == \E i \in 1..Len(s) : s[i] = [ch |-> ":"]

\* C1: between calls the response is the derivation over the values the
\* getters currently return: the three-step digest for Digest, the base64
\* of username ':' password for Basic.
C1_ResponseMatchesFields ==
    (created /\ GetScheme(field) \in {"Basic", "Digest"})
        => GetResponse(field) = ResponseOfFields(field)

\* An UpdateDigestAuth with another pair has acted on a Digest field.
C1_Witness ==
    /\ created
    /\ op.name = "UpdateDigestAuth"
    /\ op.from.follows = "other pair"
    /\ GetMethod(field) = Lit(<<"A">>)
    /\ GetResponse(field) = ResponseOfFields(field)

\* C2: UpdateDigestAuth on a field whose scheme is Basic or Unknown is
\* rejected: scheme, response and rendered value stay as they were.
C2_UpdateRejectedOffDigest ==
    [][(created /\ op'.name = "UpdateDigestAuth" /\ GetScheme(field) # "Digest")
          => /\ GetScheme(field') = GetScheme(field)
             /\ GetResponse(field') = GetResponse(field)
             /\ field'.value = field.value]_vars

\* C3 as stated: the factory's 4th argument is the realm and its 5th the uri.
C3_FactoryRealmThenUri ==
    (created /\ op.name = "CreateRtspDigestAuthorizationField")
        => /\ GetMethod(field) = op.args[3]
           /\ GetRealm(field) = op.args[4]
           /\ GetUri(field) = op.args[5]
           /\ GetNonce(field) = op.args[6]
           /\ GetResponse(field) =
                DigestResponseOf(op.args[1], op.args[4], op.args[2],
                                 op.args[6], op.args[3], op.args[5])

\* C3 amended: the factory's order is (username, password, method, uri,
\* realm, nonce): the 4th argument is the uri and the 5th the realm, and the
\* response is the three-step derivation over that assignment.
C3_FactoryUriThenRealm ==
    (created /\ op.name = "CreateRtspDigestAuthorizationField")
        => /\ GetScheme(field) = "Digest"
           /\ GetUsername(field) = op.args[1]
           /\ GetPassword(field) = op.args[2]
           /\ GetMethod(field) = op.args[3]
           /\ GetUri(field) = op.args[4]
           /\ GetRealm(field) = op.args[5]
           /\ GetNonce(field) = op.args[6]
           /\ GetResponse(field) =
                DigestResponseOf(op.args[1], op.args[5], op.args[2],
                                 op.args[6], op.args[3], op.args[4])

\* The factory has run with different 4th and 5th arguments.
C3_Witness ==
    /\ created
    /\ op.name = "CreateRtspDigestAuthorizationField"
    /\ op.args[4] = Lit(<<":">>)
    /\ op.args[5] = Lit(<<"r">>)
    /\ GetUri(field) = Lit(<<":">>)

\* C4: UpdateDigestAuth on a Digest field stores the new method and uri and
\* leaves scheme, username, password, realm and nonce as they were.
C4_UpdateFrame ==
    [][(created /\ op'.name = "UpdateDigestAuth" /\ GetScheme(field) = "Digest")
          => /\ GetMethod(field') = op'.args[1]
             /\ GetUri(field') = op'.args[2]
             /\ GetScheme(field') = GetScheme(field)
             /\ GetUsername(field') = GetUsername(field)
             /\ GetPassword(field') = GetPassword(field)
             /\ GetRealm(field') = GetRealm(field)
             /\ GetNonce(field') = GetNonce(field)]_vars

\* UpdateDigestAuth has acted on a Digest field that has a realm and a nonce.
C4_Witness ==
    /\ created
    /\ op.name = "UpdateDigestAuth"
    /\ op.from.scheme = "Digest"
    /\ GetRealm(field) = Lit(<<"r">>)
    /\ GetNonce(field) = Lit(<<"n">>)
    /\ GetMethod(field) = op.args[1]

\* C5: on a field on which no setter has run, the scheme reads Unknown and
\* a read of the response is told apart from a read of an empty string.
C5_UnsetReadIsNotReady ==
    (created /\ ~field.content_set /\ op.name = "GetResponse")
        => /\ GetScheme(field) = "Unknown"
           /\ op.ret # Value(EmptyString)

Uninitialized(f) ==
    /\ GetScheme(f) = "Unknown"
    /\ GetResponse(f) = EmptyString
    /\ ~f.content_set

Ready(f) ==
    /\ GetScheme(f) \in {"Basic", "Digest"}
    /\ GetResponse(f) = ResponseOfFields(f)
    /\ f.content_set

C6_TwoStates ==
    created => /\ Uninitialized(field) \/ Ready(field)
               /\ (GetScheme(field) = "Unknown") <=> ~field.content_set

IsSet(f) == GetScheme(f) \in {"Basic", "Digest"}

C6_Step ==
    /\ (created /\ op'.name \in {"SetBasicAuth", "SetDigestAuth"}) => IsSet(field')
    /\ (created /\ IsSet(field)) => IsSet(field')

\* C6: a field is Uninitialized (scheme Unknown, no response, no rendered
\* value set) or Ready (scheme Basic or Digest, response derived, rendered
\* value set); the scheme is Unknown exactly when no value was set; each
\* SetBasicAuth or SetDigestAuth leaves the Unknown scheme, so reaches
\* Ready, in one step; and no call, Parse included, takes a field whose
\* scheme is set back to Unknown.
C6_Lifecycle == []C6_TwoStates /\ [][C6_Step]_vars

\* Parse has been called on a Ready field, which is still Ready.
C6_Witness ==
    /\ created
    /\ op.name = "Parse"
    /\ op.from.scheme = "Digest"
    /\ Ready(field)

\* C7: in a Ready state the stored content is the Authorization type with
\* the value rendered from the current getters: the Digest line with its
\* five quoted parameters in the fixed order, or the Basic token, a space
\* and the response.
C7_ValueMatchesFields ==
    (created /\ GetScheme(field) \in {"Basic", "Digest"})
        => /\ field.type = "Authorization"
           /\ field.value = ValueOfFields(field)

\* The scheme was switched from Digest to Basic on the same object.
C7_Witness ==
    /\ created
    /\ op.name = "SetBasicAuth"
    /\ op.from.scheme = "Digest"
    /\ field.value = BasicName \o Space \o Lit(<<"Y", "T", "p", "i">>)

\* C8 as stated: two UpdateDigestAuth calls in a row with distinct
\* (method, uri) pairs never leave the same response.
C8_DistinctPairsDistinctResponse ==
    [][(created /\ op.name = "UpdateDigestAuth" /\ op'.name = "UpdateDigestAuth"
          /\ op'.args # op.args)
          => GetResponse(field') # GetResponse(field)]_vars

\* C8 amended: two UpdateDigestAuth calls in a row with distinct
\* (method, uri) pairs whose methods hold no ':' leave different responses;
\* the uri may hold ':'.
C8_ColonFreeMethodsDistinctResponse ==
    [][(created /\ op.name = "UpdateDigestAuth" /\ op'.name = "UpdateDigestAuth"
          /\ op'.args # op.args
          /\ ~HasColon(op.args[1]) /\ ~HasColon(op'.args[1]))
          => GetResponse(field') # GetResponse(field)]_vars

\* A second UpdateDigestAuth with another pair, a method without ':' and a
\* uri with one.
C8_Witness ==
    /\ created
    /\ op.name = "UpdateDigestAuth"
    /\ op.from.follows = "other pair"
    /\ ~HasColon(op.args[1])
    /\ HasColon(op.args[2])

\* C9: Parse returns failure for every message in every state and changes
\* no member and not the rendered value.
C9_ParseFailsAndKeeps ==
    [][(created /\ op'.name = "Parse")
          => /\ op'.ret = Value(FALSE)
             /\ field' = field]_vars

\* Parse has been called on a Digest field with a wire value as message.
C9_Witness ==
    /\ created
    /\ op.name = "Parse"
    /\ op.args[1] # EmptyString
    /\ op.from.scheme = "Digest"
    /\ op.ret = Value(FALSE)
    /\ GetScheme(field) = "Digest"

\* C10: SetBasicAuth on a Digest field changes only scheme, username,
\* password, response and rendered value: method, realm, uri and nonce stay;
\* and an UpdateDigestAuth right after it derives the Digest response from
\* that realm and nonce with the username and password SetBasicAuth got.
C10_BasicKeepsDigestMembers ==
    [][/\ (created /\ op'.name = "SetBasicAuth" /\ GetScheme(field) = "Digest")
            => /\ GetMethod(field') = GetMethod(field)
               /\ GetRealm(field') = GetRealm(field)
               /\ GetUri(field') = GetUri(field)
               /\ GetNonce(field') = GetNonce(field)
               /\ field'.type = field.type
               /\ GetScheme(field') = "Basic"
       /\ (created /\ op.name = "SetBasicAuth" /\ op.from.scheme = "Digest"
             /\ op'.name = "UpdateDigestAuth")
            => /\ GetScheme(field') = "Digest"
               /\ GetResponse(field') =
                    DigestResponseOf(op.args[1], GetRealm(field), op.args[2],
                                     GetNonce(field), op'.args[1], op'.args[2])]_vars

\* UpdateDigestAuth has acted on a Basic field that was a Digest field
\* before: its realm and nonce are those of the old derivation.
C10_Witness ==
    /\ created
    /\ op.name = "UpdateDigestAuth"
    /\ op.from.scheme = "Basic"
    /\ GetRealm(field) = Lit(<<"r">>)
    /\ GetNonce(field) = Lit(<<"n">>)
    /\ GetUsername(field) = Lit(<<"a">>)

=============================================================================
